---- MODULE Spec2Model ----
(***************************************************************************)
(* Range algebra of ps-range (src/src/lib.rs): the two traits Range and    *)
(* PartialRange with their provided methods, the OpenRange struct, and the *)
(* trait implementations for the native interval forms of std::ops.        *)
(*                                                                         *)
(* The index type Idx is a bounded unsigned integer type 0..MaxIdx (the    *)
(* role u8/usize play in Rust); MaxIdx is Idx::MAX.  The conversion        *)
(* Into<Idx> is taken at T = Idx, where it is the reflexive conversion.    *)
(*                                                                         *)
(* A state is one receiver value `self`, the last method call made on it   *)
(* (`call`, with its arguments), the value that call returned (`out`), and *)
(* the call that produced the receiver when the receiver is itself the     *)
(* result of an earlier call (`prev`).                                     *)
(***************************************************************************)
EXTENDS Integers, Sequences, FiniteSets

VARIABLES self, call, out, prev

vars == <<self, call, out, prev>>

\* Idx::MAX of the modelled index type.
MaxIdx == 3

Idx == 0..MaxIdx

\* Option<Idx>: None is the empty sequence, Some(x) the one-element sequence.
None == <<>>

Some(x) == <<x>>

OptionIdx == {None} \cup {Some(x) : x \in Idx}

unwrap_or(opt, default) == IF opt = None THEN default ELSE opt[1]

\* num_traits::Zero::zero() and num_traits::One::one() for an integer type.
Zero == 0

One == 1

\* Ord::min and Ord::max.
Min(a, b) == IF a <= b THEN a ELSE b

Max(a, b) == IF a >= b THEN a ELSE b

\* A plausible slip: the increment wraps around at Idx::MAX.
wrapping_add(x, y) == (x + y) % (MaxIdx + 1)

\* num_traits::SaturatingAdd::saturating_add on the bounded type Idx.
saturating_add(x, y) == IF x + y > MaxIdx THEN MaxIdx ELSE x + y

(***************************************************************************)
(* Values: the native interval forms and OpenRange.                        *)
(***************************************************************************)
MkRange(s, e) == [kind |-> "Range", start |-> s, end |-> e]

MkOpenRange(s, e) == [kind |-> "OpenRange", start |-> s, end |-> e]

RangeValues == {MkRange(s, e) : s \in Idx, e \in Idx}

RangeFromValues == {[kind |-> "RangeFrom", start |-> s] : s \in Idx}

RangeFullValues == {[kind |-> "RangeFull"]}

RangeInclusiveValues == {[kind |-> "RangeInclusive", start |-> s, end |-> e] : s \in Idx, e \in Idx}

RangeToValues == {[kind |-> "RangeTo", end |-> e] : e \in Idx}

RangeToInclusiveValues == {[kind |-> "RangeToInclusive", end |-> e] : e \in Idx}

OpenRangeValues == {MkOpenRange(s, e) : s \in Idx, e \in OptionIdx}

\* The types that implement Range<Idx>.
StrictValues == RangeValues \cup RangeInclusiveValues \cup RangeToValues \cup RangeToInclusiveValues

\* The types that implement PartialRange<Idx>.
PartialValues == StrictValues \cup RangeFromValues \cup RangeFullValues \cup OpenRangeValues

(***************************************************************************)
(* Required methods: one implementation per native form.                   *)
(***************************************************************************)
Range_start(r) ==
  CASE r.kind = "Range" -> r.start
    [] r.kind = "RangeInclusive" -> r.start
    [] r.kind = "RangeTo" -> Zero
    [] r.kind = "RangeToInclusive" -> Zero

\* A plausible slip: the inclusive bound is returned without the increment.
Range_end_NoIncrement(r) ==
  CASE r.kind = "Range" -> r.end
    [] r.kind = "RangeInclusive" -> r.end
    [] r.kind = "RangeTo" -> r.end
    [] r.kind = "RangeToInclusive" -> r.end

Range_end(r) ==
  CASE r.kind = "Range" -> r.end
    [] r.kind = "RangeInclusive" -> saturating_add(r.end, One)
    [] r.kind = "RangeTo" -> r.end
    [] r.kind = "RangeToInclusive" -> saturating_add(r.end, One)

PartialRange_start(r) ==
  CASE r.kind = "OpenRange" -> r.start
    [] r.kind = "Range" -> r.start
    [] r.kind = "RangeFrom" -> r.start
    [] r.kind = "RangeFull" -> Zero
    [] r.kind = "RangeInclusive" -> r.start
    [] r.kind = "RangeTo" -> Zero
    [] r.kind = "RangeToInclusive" -> Zero

PartialRange_end(r) ==
  CASE r.kind = "OpenRange" -> r.end
    [] r.kind = "Range" -> Some(r.end)
    [] r.kind = "RangeFrom" -> None
    [] r.kind = "RangeFull" -> None
    [] r.kind = "RangeInclusive" -> Some(saturating_add(r.end, One))
    [] r.kind = "RangeTo" -> Some(r.end)
    [] r.kind = "RangeToInclusive" -> Some(saturating_add(r.end, One))

(***************************************************************************)
(* Provided methods of trait Range.                                        *)
(***************************************************************************)
\* A plausible slip: the start is capped by the receiver's end, not by the
\* already clamped end.
Range_clamp_StaleEnd(r, start, end) ==
  LET e == Min(Range_end(r), end)
      s == Min(Max(Range_start(r), start), Range_end(r))
  IN  MkRange(s, e)

\* A plausible slip: the upper bound argument is ignored.
Range_clamp_KeepEnd(r, start, end) ==
  LET e == Range_end(r)
      s == Min(Max(Range_start(r), start), e)
  IN  MkRange(s, e)

Range_clamp(r, start, end) ==
  LET e == Min(Range_end(r), end)
      s == Min(Max(Range_start(r), start), e)
  IN  MkRange(s, e)

Range_clamp_left(r, start) == Range_clamp(r, start, Range_end(r))

Range_clamp_right(r, end) == Range_clamp(r, Range_start(r), end)

Range_intersection(r, other) == Range_clamp(r, Range_start(other), Range_end(other))

Range_to_open_range(r) == MkOpenRange(Range_start(r), Some(Range_end(r)))

(***************************************************************************)
(* Provided methods of trait PartialRange.                                 *)
(***************************************************************************)
PartialRange_clamp(r, start, end) ==
  LET lhs_start == start
      lhs_end == end
      lhs == MkRange(lhs_start, lhs_end)
      rhs_start == PartialRange_start(r)
      rhs_end == unwrap_or(PartialRange_end(r), lhs_end)
      rhs == MkRange(rhs_start, rhs_end)
  IN  Range_intersection(lhs, rhs)

\* A plausible slip: the result is always left open above.
PartialRange_clamp_left_DropEnd(r, start) ==
  MkOpenRange(Max(PartialRange_start(r), start), None)

PartialRange_clamp_left(r, start) ==
  MkOpenRange(Max(PartialRange_start(r), start), PartialRange_end(r))

PartialRange_clamp_right(r, end) ==
  LET e == IF PartialRange_end(r) # None
             THEN Min(end, PartialRange_end(r)[1])
             ELSE end
      s == Min(PartialRange_start(r), e)
  IN  MkRange(s, e)

PartialRange_intersection(r, other) ==
  IF PartialRange_end(other) = None
    THEN PartialRange_clamp_left(r, PartialRange_start(other))
    ELSE Range_to_open_range(
           PartialRange_clamp(r, PartialRange_start(other), PartialRange_end(other)[1]))

(***************************************************************************)
(* The state machine: a caller holding a value and calling methods on it.  *)
(***************************************************************************)
NoCall == [op |-> "new"]

NoOut == [kind |-> "NoOut"]

Init ==
  /\ self \in PartialValues
  /\ call = NoCall
  /\ out = NoOut
  /\ prev = NoCall

Call_Range_clamp ==
  /\ self \in StrictValues
  /\ \E start \in Idx, end \in Idx :
       /\ call' = [op |-> "Range_clamp", start |-> start, end |-> end]
       /\ out' = Range_clamp(self, start, end)
  /\ UNCHANGED <<self, prev>>

Call_Range_clamp_left ==
  /\ self \in StrictValues
  /\ \E start \in Idx :
       /\ call' = [op |-> "Range_clamp_left", start |-> start]
       /\ out' = Range_clamp_left(self, start)
  /\ UNCHANGED <<self, prev>>

Call_Range_clamp_right ==
  /\ self \in StrictValues
  /\ \E end \in Idx :
       /\ call' = [op |-> "Range_clamp_right", end |-> end]
       /\ out' = Range_clamp_right(self, end)
  /\ UNCHANGED <<self, prev>>

Call_Range_intersection ==
  /\ self \in StrictValues
  /\ \E other \in StrictValues :
       /\ call' = [op |-> "Range_intersection", other |-> other]
       /\ out' = Range_intersection(self, other)
  /\ UNCHANGED <<self, prev>>

Call_Range_to_open_range ==
  /\ self \in StrictValues
  /\ call' = [op |-> "Range_to_open_range"]
  /\ out' = Range_to_open_range(self)
  /\ UNCHANGED <<self, prev>>

Call_PartialRange_clamp ==
  /\ \E start \in Idx, end \in Idx :
       /\ call' = [op |-> "PartialRange_clamp", start |-> start, end |-> end]
       /\ out' = PartialRange_clamp(self, start, end)
  /\ UNCHANGED <<self, prev>>

Call_PartialRange_clamp_left ==
  /\ \E start \in Idx :
       /\ call' = [op |-> "PartialRange_clamp_left", start |-> start]
       /\ out' = PartialRange_clamp_left(self, start)
  /\ UNCHANGED <<self, prev>>

Call_PartialRange_clamp_right ==
  /\ \E end \in Idx :
       /\ call' = [op |-> "PartialRange_clamp_right", end |-> end]
       /\ out' = PartialRange_clamp_right(self, end)
  /\ UNCHANGED <<self, prev>>

Call_PartialRange_intersection ==
  /\ \E other \in PartialValues :
       /\ call' = [op |-> "PartialRange_intersection", other |-> other]
       /\ out' = PartialRange_intersection(self, other)
  /\ UNCHANGED <<self, prev>>

\* The returned value becomes the receiver of the next call.  The caller
\* keeps the bounds it passed (so it can pass them again), not the operand.
Chain ==
  /\ call.op # "new"
  /\ self' = out
  /\ prev' = IF call.op \in {"Range_intersection", "PartialRange_intersection"}
               THEN [op |-> call.op]
               ELSE call
  /\ call' = NoCall
  /\ out' = NoOut

Next ==
  \/ Call_Range_clamp
  \/ Call_Range_clamp_left
  \/ Call_Range_clamp_right
  \/ Call_Range_intersection
  \/ Call_Range_to_open_range
  \/ Call_PartialRange_clamp
  \/ Call_PartialRange_clamp_left
  \/ Call_PartialRange_clamp_right
  \/ Call_PartialRange_intersection
  \/ Chain

Spec == Init /\ [][Next]_vars

(***************************************************************************)
(* Properties.                                                             *)
(***************************************************************************)
\* x lies in the bounded interval [r.start, r.end).
InRange(r, x) == r.start <= x /\ x < r.end

\* x lies in the OpenRange r: start <= x and, if the end is present, x < end.
InOpen(r, x) == r.start <= x /\ (r.end = None \/ x < r.end[1])

\* x lies in the value v, read through the PartialRange accessors.
InPartial(v, x) ==
  PartialRange_start(v) <= x /\ (PartialRange_end(v) = None \/ x < PartialRange_end(v)[1])

\* v, read through the PartialRange accessors, has no end or start <= end.
Ordered(v) == PartialRange_end(v) = None \/ PartialRange_start(v) <= PartialRange_end(v)[1]

BoundedOps ==
  {"Range_clamp", "Range_clamp_left", "Range_clamp_right", "Range_intersection",
   "PartialRange_clamp", "PartialRange_clamp_right"}

OpenOps == {"PartialRange_clamp_left", "PartialRange_intersection"}

\* C1: every PartialRange method returning an OpenRange (clamp_left,
\* intersection), called on an ordered receiver with an ordered operand,
\* returns a value whose end is absent or not below its start.
C1_OpenResultOrdered ==
  (/\ call.op \in OpenOps
   /\ Ordered(self)
   /\ (call.op = "PartialRange_intersection" => Ordered(call.other)))
  => (out.end = None \/ out.start <= out.end[1])

\* C2: every method returning a bounded interval returns start <= end, for
\* every receiver (ordered or not) and all arguments.
C2_BoundedResultOrdered == call.op \in BoundedOps => out.start <= out.end

C2_Witness ==
  /\ call.op = "PartialRange_clamp"
  /\ call.start > call.end
  /\ self.kind = "Range"
  /\ self.start > self.end
  /\ call.start > self.end
  /\ out.start <= out.end

\* C3: R.intersection(S) and S.intersection(R) contain the same indices, for
\* the strict intersection and for the partial one (whatever the openness of
\* the two operands).
C3_IntersectionSymmetric ==
  /\ call.op = "Range_intersection" =>
       \A x \in Idx : InRange(out, x) <=> InRange(Range_intersection(call.other, self), x)
  /\ call.op = "PartialRange_intersection" =>
       \A x \in Idx : InOpen(out, x) <=> InOpen(PartialRange_intersection(call.other, self), x)

\* One bounded and one open operand that overlap, the operand tightening
\* the receiver's lower bound.
C3_Witness ==
  /\ call.op = "PartialRange_intersection"
  /\ self.kind = "Range"
  /\ call.other.kind = "RangeFrom"
  /\ out.start > self.start
  /\ \E x \in Idx : InOpen(out, x)

\* One bounded and one open operand whose two intersections are written
\* differently and hold the same (here: no) indices.
C3_WitnessRepresentation ==
  /\ call.op = "PartialRange_intersection"
  /\ self.kind = "Range"
  /\ call.other.kind = "RangeFrom"
  /\ out # PartialRange_intersection(call.other, self)

\* C4: clamping the result of Range::clamp(lo, hi) again with the same lo
\* and hi returns the receiver's start and end unchanged.
C4_ClampIdempotent ==
  (/\ call.op = "Range_clamp"
   /\ prev.op = "Range_clamp"
   /\ prev.start = call.start
   /\ prev.end = call.end)
  => (out.start = self.start /\ out.end = self.end)

C4_Witness ==
  /\ call.op = "Range_clamp"
  /\ prev.op = "Range_clamp"
  /\ prev.start = call.start
  /\ prev.end = call.end
  /\ call.start > call.end
  /\ out = self

\* C5: the result of Range::intersection (and of Range::clamp with the
\* bounds of another range) holds exactly the indices that lie in both.
C5_IntersectionIsOverlap ==
  /\ call.op = "Range_intersection" =>
       \A x \in Idx :
         InRange(out, x) <=>
           /\ Range_start(self) <= x /\ x < Range_end(self)
           /\ Range_start(call.other) <= x /\ x < Range_end(call.other)
  /\ call.op = "Range_clamp" =>
       \A x \in Idx :
         InRange(out, x) <=>
           /\ Range_start(self) <= x /\ x < Range_end(self)
           /\ call.start <= x /\ x < call.end

C5_Witness ==
  /\ call.op = "Range_intersection"
  /\ Range_start(self) < Range_start(call.other)
  /\ Range_end(self) < Range_end(call.other)
  /\ \E x \in Idx : InRange(out, x)
  /\ out # self
  /\ out # call.other

\* C6: PartialRange::intersection returns end = None exactly when both the
\* receiver's end and the operand's end are None.
C6_OpennessByOperands ==
  call.op = "PartialRange_intersection" =>
    (out.end = None <=> (PartialRange_end(self) = None /\ PartialRange_end(call.other) = None))

C6_Witness ==
  /\ call.op = "PartialRange_intersection"
  /\ self.kind = "RangeFull"
  /\ call.other.kind = "RangeFrom"
  /\ out.end = None

C6_WitnessBounded ==
  /\ call.op = "PartialRange_intersection"
  /\ self.kind = "OpenRange"
  /\ self.end = None
  /\ call.other.kind = "Range"
  /\ out.end = Some(call.other.end)

\* C7: with lo > hi, Range::clamp and PartialRange::clamp return an empty
\* bounded interval, start = end; every call returns a value.
C7_OutOfOrderBoundsEmpty ==
  /\ (call.op \in {"Range_clamp", "PartialRange_clamp"} /\ call.start > call.end)
       => (out.kind = "Range" /\ out.start = out.end)
  /\ call.op # "new" => out.kind \in {"Range", "OpenRange"}

C7_Witness ==
  /\ call.op = "Range_clamp"
  /\ call.start > call.end
  /\ Range_start(self) < Range_end(self)
  /\ call.end < Range_end(self)
  /\ out.start = out.end

\* The inclusive forms.
InclusiveKinds == {"RangeInclusive", "RangeToInclusive"}

\* C8: for the inclusive and to-inclusive forms the strict end is b + 1 when
\* b < MAX and MAX when b = MAX, never below b, and the partial end is Some
\* of the same value.  (to_open_range stores Range::end, PartialRange's
\* clamp_left stores PartialRange::end.)
C8_SaturatingEnd ==
  self.kind \in InclusiveKinds =>
    LET expected == IF self.end < MaxIdx THEN self.end + 1 ELSE MaxIdx
    IN  /\ call.op = "Range_to_open_range" =>
              (out.end = Some(expected) /\ out.end[1] >= self.end)
        /\ call.op = "PartialRange_clamp_left" =>
              (out.end = Some(expected) /\ out.end[1] >= self.end)

C8_Witness ==
  /\ self.kind = "RangeInclusive"
  /\ self.end = MaxIdx
  /\ call.op = "Range_to_open_range"
  /\ out.end = Some(MaxIdx)

\* C9: on a bounded range [a,b) with a <= b each PartialRange method returns
\* the same start and end as the Range method of the same name.
C9_CapabilitiesAgree ==
  (self.kind = "Range" /\ self.start <= self.end) =>
    /\ call.op = "PartialRange_clamp" =>
         LET r == Range_clamp(self, call.start, call.end)
         IN  out.start = r.start /\ out.end = r.end
    /\ call.op = "PartialRange_clamp_left" =>
         LET r == Range_clamp_left(self, call.start)
         IN  out.start = r.start /\ out.end = Some(r.end)
    /\ call.op = "PartialRange_clamp_right" =>
         LET r == Range_clamp_right(self, call.end)
         IN  out.start = r.start /\ out.end = r.end
    /\ (call.op = "PartialRange_intersection" /\ call.other \in StrictValues) =>
         out = Range_to_open_range(Range_intersection(self, call.other))

\* C10 as stated: for every inclusive range [a,b], b = MAX included, and
\* every index x: a <= x <= b iff start() <= x < end().
C10_InclusiveEquivalent ==
  (self.kind = "RangeInclusive" /\ call.op = "Range_to_open_range") =>
    \A x \in Idx : (self.start <= x /\ x <= self.end) <=> InOpen(out, x)

\* C10 amended: for every inclusive range [a,b] and every index x below MAX,
\* a <= x <= b iff start() <= x < end(); the index MAX is never within
\* start() <= x < end().
C10_InclusiveEquivalentBelowMax ==
  (self.kind = "RangeInclusive" /\ call.op = "Range_to_open_range") =>
    /\ \A x \in Idx \ {MaxIdx} : (self.start <= x /\ x <= self.end) <=> InOpen(out, x)
    /\ ~InOpen(out, MaxIdx)

C10_Witness ==
  /\ self.kind = "RangeInclusive"
  /\ call.op = "Range_to_open_range"
  /\ self.end = MaxIdx
  /\ self.start < MaxIdx
  /\ out.end = Some(MaxIdx)

====
